---- MODULE Spec2Model ----
(***************************************************************************)
(* A model of hypothesis.extra.numpy (src/src/hypothesis/extra/numpy.py):  *)
(* the element-strategy inference from_dtype, the argument checks          *)
(* check_argument and order_check, the array strategy and its factory      *)
(* arrays, the shape strategy array_shapes and the dtype strategy          *)
(* families built by dtype_factory.                                        *)
(*                                                                         *)
(* A strategy is a record with a field tag.  A call that raises is the     *)
(* record Raise(exc, msg).  A Python str or tuple is a sequence; a format  *)
(* template is the sequence of its literal pieces and its replacement      *)
(* fields ("{}" positional, "{name}" by keyword).                          *)
(***************************************************************************)
EXTENDS Integers, Sequences, FiniteSets, TLC

VARIABLES
    host,    \* the byte order of the machine, "<" or ">"
    pc,      \* "idle", "returned" (a call ended), "filling" (do_draw's loop), "drawn"
    call,    \* the call made: its name and arguments
    result,  \* what the call returned or raised
    drawn,   \* do_draw: the values the element strategy drew from the stream, in order
    buf,     \* do_draw: the flat buffer `result`
    idx,     \* do_draw: the loop index i
    value    \* what the draw produced

vars == <<host, pc, call, result, drawn, buf, idx, value>>

\* The fields of the records of the model.  TLC keeps a record's fields in the
\* order it first met their names; every record below lists its fields in
\* this order, so that none is rearranged while two workers read it.
FieldOrder ==
    <<[tag |-> 0, op |-> 0, exc |-> 0, msg |-> 0, text |-> 0],
      [kind |-> 0, itemsize |-> 0, byteorder |-> 0],
      [isdtype |-> 0, descriptor |-> 0, string |-> 0, isint |-> 0, int |-> 0, tuple |-> 0],
      [dtype |-> 0, shape |-> 0, elements |-> 0, element_strategy |-> 0, array_size |-> 0],
      [min_value |-> 0, max_value |-> 0, min_size |-> 0, max_size |-> 0],
      [min_dims |-> 0, max_dims |-> 0, min_side |-> 0, max_side |-> 0],
      [endianness |-> 0, sizes |-> 0, base |-> 0, template |-> 0, left |-> 0, right |-> 0],
      [written |-> 0, val |-> 0, array |-> 0, cells |-> 0, initialized |-> 0]>>

----------------------------------------------------------------------------
(* Bounds of the model.                                                    *)

\* array_shapes is called with min_dims, max_dims in -1..MaxDims
MaxDims == 2
\* array_shapes is called with min_side, max_side in -1..MaxSide
MaxSide == 2
\* arrays is called with shapes of at most MaxShapeDims axes
MaxShapeDims == 2
\* ... each axis of length 0..MaxShapeSide
MaxShapeSide == 3
\* ... and at most MaxCells cells in all
MaxCells == 6
\* the sizes argument of a dtype family is a tuple of at most MaxSizes widths
MaxSizes == 2

----------------------------------------------------------------------------
(* Python values.                                                          *)

None == [tag |-> "None"]

Raise(exc, msg) == [tag |-> "raise", exc |-> exc, msg |-> msg]

Returned == [tag |-> "ok"]

Range(s) == {s[k] : k \in 1..Len(s)}

RECURSIVE Pow2(_)
Pow2(n) == IF n <= 0 THEN 1 ELSE 2 * Pow2(n - 1)

\* x << n on Python integers (unbounded; n >= 0)
Shl(x, n) == x * Pow2(n)

\* str(x)
Str(x) == ToString(x)

\* the replacement fields of a template
IsPositionalField(tok) == tok = "{}"

IsNamedField(tok) == tok \in {"{name}"}

FieldName(tok) == IF tok = "{name}" THEN "name" ELSE ""

PositionalFields(template) ==
    Cardinality({k \in 1..Len(template) : IsPositionalField(template[k])})

\* the number of positional fields among the first k tokens
FieldsBefore(template, k) ==
    Cardinality({j \in 1..k : IsPositionalField(template[j])})

\* template.format(*f_args, **f_kwargs): the formatted text, or the error
\* str.format raises when a field has no argument
Format(template, f_args, f_kwargs) ==
    IF PositionalFields(template) > Len(f_args)
    THEN Raise("IndexError", <<"tuple index out of range">>)
    ELSE IF \E k \in 1..Len(template) :
                /\ IsNamedField(template[k])
                /\ FieldName(template[k]) \notin DOMAIN f_kwargs
    THEN Raise("KeyError", <<"name">>)
    ELSE [tag |-> "str",
          text |-> [k \in 1..Len(template) |->
                      IF IsPositionalField(template[k])
                      THEN Str(f_args[FieldsBefore(template, k)])
                      ELSE IF IsNamedField(template[k])
                      THEN Str(f_kwargs[FieldName(template[k])])
                      ELSE template[k]]]

----------------------------------------------------------------------------
(* check_argument and order_check.                                         *)

\* check_argument(condition, fail_message, *f_args, **f_kwargs)
check_argument(condition, fail_message, f_args, f_kwargs) ==
    IF ~condition
    THEN LET m == Format(fail_message, f_args, f_kwargs)
         IN  IF m.tag = "raise" THEN m ELSE Raise("InvalidArgument", m.text)
    ELSE Returned

OrderMessage ==
    <<"min_", "{name}", " was ", "{}", ", must be at least ", "{}",
      " and not more than max_", "{name}", " (was ", "{}", ")">>

\* the parameters of check_argument that a positional argument can bind
check_argument_params == <<"condition", "fail_message">>

\* The call of check_argument in order_check, line 61-63: the message, small,
\* floor and large are passed by position and name and condition by keyword.
\* Python binds the positional arguments to the parameters in order (the
\* message to condition, small to fail_message, the rest to *f_args) and
\* refuses a keyword that names a parameter already bound.
order_check_call(name, floor, small, large) ==
    LET positional == <<OrderMessage, small, floor, large>>
        keywords == {"name", "condition"}
        bound == {check_argument_params[k] :
                    k \in {j \in 1..Len(check_argument_params) : j <= Len(positional)}}
    IN  IF keywords \cap bound # {}
        THEN Raise("TypeError",
                   <<"check_argument() got multiple values for argument 'condition'">>)
        ELSE check_argument(FALSE, OrderMessage, <<small, floor, large>>,
                            [n \in {"name"} |-> name])

\* order_check(name, floor, small, large); floor is <<>> for None, <<n>> for n.
\* None becomes -inf, which is greater than no small.  floor > small > large
\* is Python's chained comparison: floor > small and small > large.
order_check(name, floor, small, large) ==
    IF floor # <<>> /\ floor[1] > small /\ small > large
    THEN order_check_call(name, floor, small, large)
    ELSE Returned

----------------------------------------------------------------------------
(* Type descriptors and from_dtype.                                        *)

\* item sizes in bytes of the integer descriptors the model realizes
\* (int64's bounds exceed the model checker's integers)
ItemSizes == {1, 2, 4}

\* a realized descriptor; byteorder is "|" (not applicable), "=" (native),
\* "<" or ">"
Dtype(kind, itemsize) ==
    [kind |-> kind, itemsize |-> itemsize,
     byteorder |-> IF itemsize = 1 \/ kind \in {"S", "a", "V", "O"} THEN "|" ELSE "="]

\* the descriptors the model calls from_dtype with: every kind from_dtype
\* knows, and object (O) and datetime (M), which it does not
Dtypes == {Dtype(k, s) : k \in {"u", "i"}, s \in ItemSizes}
            \cup {Dtype("b", 1), Dtype("f", 4), Dtype("c", 8), Dtype("S", 2),
                  Dtype("a", 2), Dtype("V", 2), Dtype("U", 4), Dtype("O", 8),
                  Dtype("M", 8)}

Integers_(min_value, max_value) ==
    [tag |-> "integers", min_value |-> min_value, max_value |-> max_value]

\* strategy.map(dtype.type)
MapType(strategy, dtype) == [tag |-> "map_type", dtype |-> dtype, base |-> strategy]

\* from_dtype(dtype).  1 << (4 * itemsize) - 1 is 1 << ((4 * itemsize) - 1):
\* the shift binds looser than the subtraction; -1 << n is (-1) << n.
from_dtype(dtype) ==
    IF dtype.kind = "b" THEN MapType([tag |-> "booleans"], dtype)
    ELSE IF dtype.kind = "f" THEN MapType([tag |-> "floats"], dtype)
    ELSE IF dtype.kind = "c" THEN MapType([tag |-> "complex_numbers"], dtype)
    ELSE IF dtype.kind \in {"S", "a", "V"} THEN MapType([tag |-> "binary"], dtype)
    ELSE IF dtype.kind = "u"
    THEN MapType(Integers_(0, Shl(1, (4 * dtype.itemsize) - 1)), dtype)
    ELSE IF dtype.kind = "i"
    THEN LET min_integer == Shl(-1, 4 * dtype.itemsize - 1)
         IN  MapType(Integers_(min_integer, (-min_integer) - 1), dtype)
    ELSE IF dtype.kind = "U" THEN MapType([tag |-> "text"], dtype)
    ELSE Raise("InvalidArgument",
               Format(<<"No strategy inference for ", "{}">>, <<dtype>>, <<>>).text)

----------------------------------------------------------------------------
(* array_shapes.                                                           *)

\* st.lists(st.integers(min_side, max_side),
\*          min_size=min_dims, max_size=max_dims).map(tuple)
ShapeStrategy(min_side, max_side, min_size, max_size) ==
    [tag |-> "lists_map_tuple", elements |-> Integers_(min_side, max_side),
     min_size |-> min_size, max_size |-> max_size]

\* array_shapes with the side bounds passed as the sizes of the list
array_shapes_swapped(min_dims, max_dims, min_side, max_side) ==
    LET dims == order_check("dims", <<1>>, min_dims, max_dims)
        side == order_check("side", <<1>>, min_side, max_side)
    IN  IF dims.tag = "raise" THEN dims
        ELSE IF side.tag = "raise" THEN side
        ELSE ShapeStrategy(min_dims, max_dims, min_side, max_side)

\* array_shapes(min_dims, max_dims, min_side, max_side): the body the
\* strategy evaluates
array_shapes(min_dims, max_dims, min_side, max_side) ==
    LET dims == order_check("dims", <<1>>, min_dims, max_dims)
        side == order_check("side", <<1>>, min_side, max_side)
    IN  IF dims.tag = "raise" THEN dims
        ELSE IF side.tag = "raise" THEN side
        ELSE ShapeStrategy(min_side, max_side, min_dims, max_dims)

----------------------------------------------------------------------------
(* Descriptor strings and their realization.                               *)

\* the byte orders a machine can have
Hosts == {"<", ">"}

\* int(tok) for the decimal strings a descriptor string holds
ParseInt(tok) == CHOOSE n \in 0..256 : ToString(n) = tok

\* np.dtype(s) for a descriptor string <<byte order, kind, item size>>: a
\* one-byte item has no byte order, and the machine's own is recorded as
\* native
np_dtype(s) ==
    LET itemsize == ParseInt(s[3])
    IN  [kind |-> s[2], itemsize |-> itemsize,
         byteorder |-> IF itemsize = 1 THEN "|"
                       ELSE IF s[1] = "=" \/ s[1] = host THEN "="
                       ELSE s[1]]

\* the byte order a realized descriptor lays its items out in
ByteOrderOf(dtype) ==
    IF dtype.byteorder = "=" THEN host ELSE dtype.byteorder

----------------------------------------------------------------------------
(* dtype_factory and the dtype families.                                   *)

RECURSIVE SortedSeq(_)
\* sorted(S) for a finite set of integers
SortedSeq(S) ==
    IF S = {} THEN <<>>
    ELSE LET m == CHOOSE x \in S : \A y \in S : x <= y
         IN  <<m>> \o SortedSeq(S \ {m})

SampledFrom(elements) == [tag |-> "sampled_from", elements |-> elements]

\* strat.map(template.format)
MapFormat(strat, template) == [tag |-> "map_format", base |-> strat, template |-> template]

\* left | right
OneOf(left, right) == [tag |-> "one_of", left |-> left, right |-> right]

valid_endian == <<"?", "<", "=", ">">>

\* the tail of dtype_factory with the little-endian template on both sides
\* of the union
dtype_factory_strategy_one_order(kind, sizes, endianness) ==
    LET strat == SampledFrom(sizes)
        kind_ == IF "{}" \notin Range(kind) THEN kind \o <<"{}">> ELSE kind
    IN  IF endianness = "?"
        THEN OneOf(MapFormat(strat, <<"<">> \o kind_),
                   MapFormat(strat, <<"<">> \o kind_))
        ELSE MapFormat(strat, <<endianness>> \o kind_)

\* the tail of dtype_factory, from strat = st.sampled_from(sizes) on
dtype_factory_strategy(kind, sizes, endianness) ==
    LET strat == SampledFrom(sizes)
        kind_ == IF "{}" \notin Range(kind) THEN kind \o <<"{}">> ELSE kind
    IN  IF endianness = "?"
        THEN OneOf(MapFormat(strat, <<"<">> \o kind_),
                   MapFormat(strat, <<">">> \o kind_))
        ELSE MapFormat(strat, <<endianness>> \o kind_)

\* the sizes of dtype_factory normalized without the division by 8
dtype_factory_sizes_bits(sizes) == SortedSeq(Range(sizes))

\* sizes = sorted(set(s // 8 for s in sizes))
dtype_factory_sizes(sizes) == SortedSeq({s \div 8 : s \in Range(sizes)})

\* dtype_factory(kind, sizes, valid_sizes, endianness).  kind is a str (a
\* sequence of pieces); sizes is [isint |-> TRUE, int |-> width] or
\* [isint |-> FALSE, tuple |-> tuple]; valid_sizes is <<>> for None or <<tuple>>.
\* Every size of the model is an int, so `all(isinstance(s, int) ...)` holds.
dtype_factory(kind, sizes, valid_sizes, endianness) ==
    LET endian == check_argument(endianness \in Range(valid_endian),
                      <<"Unknown endianness: was ", "{}", ", must be in ", "{}">>,
                      <<valid_endian>>, <<>>)
        sizes_ == IF sizes.isint THEN <<sizes.int>> ELSE sizes.tuple
        nonempty == check_argument(sizes_ # <<>>,
                      <<"Dtype must have at least one possible size.">>, <<>>, <<>>)
        member == check_argument(\A k \in 1..Len(sizes_) : sizes_[k] \in Range(valid_sizes[1]),
                      <<"Invalid sizes: was ", "{}",
                        " must be an item or sequence in ", "{}">>,
                      <<sizes_, valid_sizes[1]>>, <<>>)
    IN  IF endian.tag = "raise" THEN endian
        ELSE IF valid_sizes = <<>>
        THEN dtype_factory_strategy(kind, IF sizes.isint THEN <<>> ELSE sizes.tuple, endianness)
        ELSE IF nonempty.tag = "raise" THEN nonempty
        ELSE IF member.tag = "raise" THEN member
        ELSE dtype_factory_strategy(kind, dtype_factory_sizes(sizes_), endianness)

\* defines_dtype_strategy: strat(*args, **kwargs).map(np.dtype)
defines_dtype_strategy(strat) ==
    IF strat.tag = "raise" THEN strat ELSE [tag |-> "map_np_dtype", base |-> strat]

\* the valid_sizes each family passes to dtype_factory, in bits
UnsignedValidSizes == <<8, 16, 32, 64>>

IntegerValidSizes == <<8, 16, 32, 64>>

FloatingValidSizes == <<16, 32, 64, 96, 128>>

ComplexValidSizes == <<64, 128, 192, 256>>

unsigned_integer_dtypes(endianness, sizes) ==
    defines_dtype_strategy(dtype_factory(<<"u">>, sizes, <<UnsignedValidSizes>>, endianness))

integer_dtypes(endianness, sizes) ==
    defines_dtype_strategy(dtype_factory(<<"i">>, sizes, <<IntegerValidSizes>>, endianness))

floating_dtypes(endianness, sizes) ==
    defines_dtype_strategy(dtype_factory(<<"f">>, sizes, <<FloatingValidSizes>>, endianness))

complex_number_dtypes(endianness, sizes) ==
    defines_dtype_strategy(dtype_factory(<<"c">>, sizes, <<ComplexValidSizes>>, endianness))

RECURSIVE Support(_)
\* the values a draw of a strategy of descriptor strings can produce
Support(strategy) ==
    IF strategy.tag = "sampled_from" THEN Range(strategy.elements)
    ELSE IF strategy.tag = "map_format"
    THEN {Format(strategy.template, <<x>>, <<>>).text : x \in Support(strategy.base)}
    ELSE IF strategy.tag = "one_of"
    THEN Support(strategy.left) \cup Support(strategy.right)
    ELSE {}

----------------------------------------------------------------------------
(* ArrayStrategy and arrays.                                               *)

RECURSIVE Prod(_)
\* np.prod(shape)
Prod(shape) == IF shape = <<>> THEN 1 ELSE Head(shape) * Prod(Tail(shape))

\* ArrayStrategy.__init__(element_strategy, shape, dtype)
ArrayStrategy(element_strategy, shape, dtype) ==
    IF shape = <<>>
    THEN Raise("AssertionError", <<>>)
    ELSE [tag |-> "ArrayStrategy", dtype |-> dtype, shape |-> shape,
          element_strategy |-> element_strategy, array_size |-> Prod(shape)]

\* arrays that wraps every request, the 0-dimensional ones too
arrays_no_collapse(dtype, shape, elements) ==
    LET dtype_ == IF dtype.isdtype THEN dtype.descriptor ELSE np_dtype(dtype.string)
        elements_ == IF elements.tag = "None" THEN from_dtype(dtype_) ELSE elements
        shape_ == IF shape.isint THEN <<shape.int>> ELSE shape.tuple
    IN  IF elements_.tag = "raise" THEN elements_
        ELSE [tag |-> "ArrayStrategy", dtype |-> dtype_, shape |-> shape_,
              element_strategy |-> elements_, array_size |-> Prod(shape_)]

\* arrays(dtype, shape, elements).  dtype is [isdtype |-> TRUE, descriptor |-> descriptor]
\* or [isdtype |-> FALSE, string |-> descriptor string]; shape is
\* [isint |-> TRUE, int |-> int] or [isint |-> FALSE, tuple |-> tuple]; elements is
\* None or a strategy.  The else of line 99 belongs to `if not shape`: an empty
\* shape of kind O reaches the end of the function, which returns None.
arrays(dtype, shape, elements) ==
    LET dtype_ == IF dtype.isdtype THEN dtype.descriptor ELSE np_dtype(dtype.string)
        elements_ == IF elements.tag = "None" THEN from_dtype(dtype_) ELSE elements
        shape_ == IF shape.isint THEN <<shape.int>> ELSE shape.tuple
    IN  IF elements_.tag = "raise" THEN elements_
        ELSE IF shape_ = <<>>
        THEN IF dtype_.kind # "O" THEN elements_ ELSE None
        ELSE ArrayStrategy(elements_, shape_, dtype_)

\* v wrapped to an unsigned item of the given width.  The integers of the
\* model are below 2^31: a width of 31 bits or more leaves them as they are.
WrapUnsigned(v, bits) == IF bits >= 31 THEN v ELSE v % Pow2(bits)

\* v wrapped to a two's-complement item of the given width
WrapSigned(v, bits) ==
    IF bits >= 32 THEN v
    ELSE ((v + Pow2(bits - 1)) % Pow2(bits)) - Pow2(bits - 1)

\* dtype.type(v), and the conversion of `result[i] = v`: an integer wraps to
\* the item's width, a boolean is the truth of v, an object is kept
TypeCast(dtype, v) ==
    IF dtype.kind = "u" THEN WrapUnsigned(v, 8 * dtype.itemsize)
    ELSE IF dtype.kind = "i" THEN WrapSigned(v, 8 * dtype.itemsize)
    ELSE IF dtype.kind = "b" THEN (IF v # 0 THEN 1 ELSE 0)
    ELSE v

RECURSIVE DrawSet(_)
\* the values one do_draw of an element strategy can take from the stream:
\* of a bounded integer strategy the model draws the two end points
DrawSet(strategy) ==
    IF strategy.tag = "integers"
    THEN {v \in {strategy.min_value, strategy.max_value} :
            strategy.min_value <= strategy.max_value}
    ELSE IF strategy.tag = "booleans" THEN {0, 1}
    ELSE IF strategy.tag = "map_type"
    THEN {TypeCast(strategy.dtype, v) : v \in DrawSet(strategy.base)}
    ELSE {}

\* np.empty(dtype, shape=n): n cells of no defined content
Empty(n) == [k \in 1..n |-> [written |-> FALSE, val |-> 0]]

\* the multi-indices of an array of a shape
Indices(shape) ==
    LET longest == IF shape = <<>> THEN 0
                   ELSE CHOOSE m \in Range(shape) : \A n \in Range(shape) : n <= m
    IN  {ix \in [1..Len(shape) -> 0..longest] :
            \A k \in 1..Len(shape) : ix[k] < shape[k]}

RECURSIVE FlatIndex(_, _)
\* the row-major (C order) offset of a multi-index: the last axis varies fastest
FlatIndex(ix, shape) ==
    IF ix = <<>> THEN 0
    ELSE Head(ix) * Prod(Tail(shape)) + FlatIndex(Tail(ix), Tail(shape))

\* flat.reshape(shape)
Reshape(flat, shape) ==
    [shape |-> shape,
     cells |-> [ix \in Indices(shape) |-> flat[FlatIndex(ix, shape) + 1].val]]

----------------------------------------------------------------------------
(* The calls and the draws.                                                *)

\* the arguments the model calls array_shapes with
DimArgs == -1..MaxDims

SideArgs == -1..MaxSide

\* the descriptors and descriptor strings the model calls arrays with
ArrayDtypes ==
    {[isdtype |-> TRUE, descriptor |-> Dtype(k, 1)] : k \in {"u", "b"}}
        \cup {[isdtype |-> TRUE, descriptor |-> Dtype("O", 8)],
              [isdtype |-> TRUE, descriptor |-> Dtype("M", 8)]}
        \cup {[isdtype |-> FALSE, string |-> <<"<", "i", "2">>]}

\* the element strategies the model calls arrays with
ElementArgs == {None, Integers_(0, 1)}

TuplesUpTo(S, n) == UNION {[1..k -> S] : k \in 0..n}

\* the shapes the model calls arrays with: an int, or a tuple of axis lengths
ShapeArgs ==
    {[isint |-> TRUE, int |-> n] : n \in 0..MaxCells}
        \cup {[isint |-> FALSE, tuple |-> t] : t \in TuplesUpTo(0..MaxShapeSide, MaxShapeDims)}

\* the endianness arguments: the four of valid_endian and one that is none of them
EndianArgs == {"?", "<", "=", ">", "!"}

\* the widths in bits the sizes argument is built from
WidthArgs == {7, 8, 16, 32, 64, 128}

SizesArgs ==
    {[isint |-> TRUE, int |-> n] : n \in WidthArgs}
        \cup {[isint |-> FALSE, tuple |-> t] : t \in TuplesUpTo(WidthArgs, MaxSizes)}

NoValue == [tag |-> "none"]

Init ==
    /\ host \in Hosts
    /\ pc = "idle"
    /\ call = [op |-> "none"]
    /\ result = None
    /\ drawn = <<>>
    /\ buf = <<>>
    /\ idx = 0
    /\ value = NoValue

\* the call c ends with r: returned or raised
Return(c, r) ==
    /\ pc' = "returned"
    /\ call' = c
    /\ result' = r
    /\ UNCHANGED <<host, drawn, buf, idx, value>>

CallFromDtype ==
    /\ pc = "idle"
    /\ \E dtype \in Dtypes :
           Return([op |-> "from_dtype", dtype |-> dtype], from_dtype(dtype))

CallArrays ==
    /\ pc = "idle"
    /\ \E dtype \in ArrayDtypes, shape \in ShapeArgs, elements \in ElementArgs :
           /\ Prod(IF shape.isint THEN <<shape.int>> ELSE shape.tuple) <= MaxCells
           /\ Return([op |-> "arrays", dtype |-> dtype, shape |-> shape, elements |-> elements],
                     arrays(dtype, shape, elements))

CallArrayShapes ==
    /\ pc = "idle"
    /\ \E min_dims \in DimArgs, max_dims \in DimArgs, min_side \in SideArgs, max_side \in SideArgs :
           Return([op |-> "array_shapes", min_dims |-> min_dims, max_dims |-> max_dims,
                   min_side |-> min_side, max_side |-> max_side],
                  array_shapes(min_dims, max_dims, min_side, max_side))

FamilyCall(op, endianness, sizes) ==
    [op |-> op, endianness |-> endianness, sizes |-> sizes]

CallUnsignedIntegerDtypes ==
    /\ pc = "idle"
    /\ \E endianness \in EndianArgs, sizes \in SizesArgs :
           Return(FamilyCall("unsigned_integer_dtypes", endianness, sizes),
                  unsigned_integer_dtypes(endianness, sizes))

CallIntegerDtypes ==
    /\ pc = "idle"
    /\ \E endianness \in EndianArgs, sizes \in SizesArgs :
           Return(FamilyCall("integer_dtypes", endianness, sizes),
                  integer_dtypes(endianness, sizes))

CallFloatingDtypes ==
    /\ pc = "idle"
    /\ \E endianness \in EndianArgs, sizes \in SizesArgs :
           Return(FamilyCall("floating_dtypes", endianness, sizes),
                  floating_dtypes(endianness, sizes))

CallComplexNumberDtypes ==
    /\ pc = "idle"
    /\ \E endianness \in EndianArgs, sizes \in SizesArgs :
           Return(FamilyCall("complex_number_dtypes", endianness, sizes),
                  complex_number_dtypes(endianness, sizes))

\* the draw ends with the value v
Produce(v) ==
    /\ pc' = "drawn"
    /\ value' = v
    /\ UNCHANGED <<host, call, result, drawn, buf, idx>>

\* a draw of the strategy array_shapes returned: a list of min_size to
\* max_size draws of the element strategy, as a tuple
DrawShape ==
    /\ pc = "returned"
    /\ result.tag = "lists_map_tuple"
    /\ \E n \in 0..MaxDims :
        /\ result.min_size <= n
        /\ n <= result.max_size
        /\ \E t \in [1..n -> result.elements.min_value..result.elements.max_value] :
             Produce([tag |-> "tuple", tuple |-> t])

\* a draw of the strategy a dtype family returned: a descriptor string of
\* the support, realized by np.dtype
DrawDescriptor ==
    /\ pc = "returned"
    /\ result.tag = "map_np_dtype"
    /\ \E s \in Support(result.base) :
         Produce([tag |-> "dtype", string |-> s, dtype |-> np_dtype(s)])

\* a draw of an element strategy (what from_dtype returned, or arrays for a
\* 0-dimensional shape)
DrawScalar ==
    /\ pc = "returned"
    /\ result.tag \in {"map_type", "integers"}
    /\ \E v \in DrawSet(result) : Produce([tag |-> "scalar", val |-> v])

\* ArrayStrategy.do_draw, line 76: result = np.empty(dtype, shape=array_size)
DoDrawBegin ==
    /\ pc = "returned"
    /\ result.tag = "ArrayStrategy"
    /\ pc' = "filling"
    /\ buf' = Empty(result.array_size)
    /\ drawn' = <<>>
    /\ idx' = 0
    /\ UNCHANGED <<host, call, result, value>>

\* the cell a step of the loop writes, counted from the end
StepCellReversed(i, n) == n - i

\* the cell a step of the loop writes: result[i], cell i + 1 of the sequence
StepCell(i, n) == i + 1

\* lines 77-78: result[i] = self.element_strategy.do_draw(data)
DoDrawStep ==
    /\ pc = "filling"
    /\ idx < result.array_size
    /\ \E v \in DrawSet(result.element_strategy) :
        /\ drawn' = Append(drawn, v)
        /\ buf' = [buf EXCEPT ![StepCell(idx, result.array_size)] =
                        [written |-> TRUE, val |-> TypeCast(result.dtype, v)]]
    /\ idx' = idx + 1
    /\ UNCHANGED <<host, pc, call, result, value>>

\* line 79: return result.reshape(self.shape)
DoDrawReturn ==
    /\ pc = "filling"
    /\ idx >= result.array_size
    /\ pc' = "drawn"
    /\ value' = [tag |-> "ndarray", array |-> Reshape(buf, result.shape),
                 initialized |-> \A k \in 1..Len(buf) : buf[k].written]
    /\ UNCHANGED <<host, call, result, drawn, buf, idx>>

\* the caller drops what it got and is ready for the next call
Reset ==
    /\ pc \in {"returned", "drawn"}
    /\ pc' = "idle"
    /\ call' = [op |-> "none"]
    /\ result' = None
    /\ drawn' = <<>>
    /\ buf' = <<>>
    /\ idx' = 0
    /\ value' = NoValue
    /\ UNCHANGED host

Next ==
    \/ CallFromDtype
    \/ CallArrays
    \/ CallArrayShapes
    \/ CallUnsignedIntegerDtypes
    \/ CallIntegerDtypes
    \/ CallFloatingDtypes
    \/ CallComplexNumberDtypes
    \/ DrawShape
    \/ DrawDescriptor
    \/ DrawScalar
    \/ DoDrawBegin
    \/ DoDrawStep
    \/ DoDrawReturn
    \/ Reset

Spec == Init /\ [][Next]_vars

----------------------------------------------------------------------------
(* The claims.                                                             *)

RECURSIVE IsTwoToThe(_, _)
\* v = 2^e, decided by halving (no power beyond v is computed)
IsTwoToThe(v, e) ==
    IF e = 0 THEN v = 1
    ELSE v > 0 /\ v % 2 = 0 /\ IsTwoToThe(v \div 2, e - 1)

FamilyOps ==
    {"unsigned_integer_dtypes", "integer_dtypes", "floating_dtypes", "complex_number_dtypes"}

\* the call that returned is one of op
Called(op) == pc \in {"returned", "filling", "drawn"} /\ call.op = op

CalledFamily == pc \in {"returned", "drawn"} /\ call.op \in FamilyOps

\* the descriptor a call of arrays realized
CalledDtype ==
    IF call.dtype.isdtype THEN call.dtype.descriptor ELSE np_dtype(call.dtype.string)

\* the shape a call of arrays normalized
CalledShape == IF call.shape.isint THEN <<call.shape.int>> ELSE call.shape.tuple

\* the requested widths of a family call, as a set
CalledSizes == IF call.sizes.isint THEN {call.sizes.int} ELSE Range(call.sizes.tuple)

\* the valid widths and the kind code of the family called
CalledValidSizes ==
    IF call.op = "unsigned_integer_dtypes" THEN {8, 16, 32, 64}
    ELSE IF call.op = "integer_dtypes" THEN {8, 16, 32, 64}
    ELSE IF call.op = "floating_dtypes" THEN {16, 32, 64, 96, 128}
    ELSE {64, 128, 192, 256}

CalledKind ==
    IF call.op = "unsigned_integer_dtypes" THEN "u"
    ELSE IF call.op = "integer_dtypes" THEN "i"
    ELSE IF call.op = "floating_dtypes" THEN "f"
    ELSE "c"

RaisedInvalidArgument == result.tag = "raise" /\ result.exc = "InvalidArgument"

\* C1: for an integer descriptor of item size s bytes, the integer strategy
\* from_dtype builds is bounded by exactly the representable range: [0,
\* 2^(8s) - 1] for kind u, [-2^(8s-1), 2^(8s-1) - 1] for kind i.
C1_IntegerBoundsAreTheRange ==
    (Called("from_dtype") /\ call.dtype.kind \in {"u", "i"}) =>
        /\ result.tag = "map_type"
        /\ result.base.tag = "integers"
        /\ call.dtype.kind = "u" =>
            /\ result.base.min_value = 0
            /\ IsTwoToThe(result.base.max_value + 1, 8 * call.dtype.itemsize)
        /\ call.dtype.kind = "i" =>
            /\ IsTwoToThe(-result.base.min_value, 8 * call.dtype.itemsize - 1)
            /\ result.base.max_value = (-result.base.min_value) - 1

\* C2: array_shapes called with inverted bounds (min_dims > max_dims or
\* min_side > max_side) fails with InvalidArgument and returns no strategy.
C2_InvertedBoundsAreRejected ==
    (Called("array_shapes")
        /\ (call.min_dims > call.max_dims \/ call.min_side > call.max_side))
    => RaisedInvalidArgument

\* C3: arrays called with a descriptor of kind O, an empty shape and an
\* explicit element strategy returns an ArrayStrategy over (elements, shape,
\* descriptor): not the element strategy, not None.
C3_ObjectZeroDimIsAnArrayStrategy ==
    (Called("arrays") /\ CalledDtype.kind = "O" /\ CalledShape = <<>>
        /\ call.elements.tag # "None")
    => /\ result.tag = "ArrayStrategy"
       /\ result.element_strategy = call.elements
       /\ result.shape = <<>>
       /\ result.dtype = CalledDtype

\* the multi-index ix comes before jx in row-major order: at the first axis
\* where they differ, ix is the smaller
RowMajorBefore(ix, jx) ==
    \E k \in 1..Len(ix) :
        /\ ix[k] < jx[k]
        /\ \A j \in 1..(k - 1) : ix[j] = jx[j]

\* C4: a draw of an ArrayStrategy of a non-empty shape makes exactly
\* n = product(shape) element draws, in index order 0..n-1: while the loop
\* runs, the cells below the index hold the values drawn so far, in the
\* order drawn, and no other cell is written; the array returned has the
\* shape, n cells, and in the cell of row-major rank r the r-th value drawn.
C4_DrawFillsCellsInStreamOrder ==
    /\ pc = "filling" =>
        /\ idx = Len(drawn)
        /\ idx <= result.array_size
        /\ Len(buf) = result.array_size
        /\ \A k \in 1..Len(buf) :
            IF k <= idx THEN buf[k].written /\ buf[k].val = drawn[k]
            ELSE ~buf[k].written
    /\ (pc = "drawn" /\ value.tag = "ndarray") =>
        /\ result.shape # <<>>
        /\ Len(drawn) = Prod(result.shape)
        /\ value.initialized
        /\ value.array.shape = result.shape
        /\ Cardinality(DOMAIN value.array.cells) = Prod(result.shape)
        /\ \A ix \in DOMAIN value.array.cells :
            /\ Len(ix) = Len(result.shape)
            /\ \A k \in 1..Len(ix) : 0 <= ix[k] /\ ix[k] < result.shape[k]
            /\ value.array.cells[ix] =
                 drawn[Cardinality({jx \in DOMAIN value.array.cells :
                                        RowMajorBefore(jx, ix)}) + 1]

\* a draw of shape (2, 3) ended, of six element draws that are not all equal
C4_Witness ==
    /\ pc = "drawn"
    /\ value.tag = "ndarray"
    /\ result.shape = <<2, 3>>
    /\ Len(drawn) = 6
    /\ drawn[1] # drawn[2]
    /\ value.array.cells[<<1, 0>>] = drawn[4]

\* C5: arrays called with a descriptor of a kind other than O and an empty
\* shape returns the element strategy itself: the one the caller gave, or
\* what from_dtype(descriptor) gives (its strategy, or its error) when none
\* was given.  No ArrayStrategy is built, and a draw yields a bare scalar.
C5_ZeroDimCollapsesToElements ==
    (Called("arrays") /\ CalledDtype.kind # "O" /\ CalledShape = <<>>) =>
        /\ result.tag \notin {"ArrayStrategy", "None"}
        /\ call.elements.tag # "None" => result = call.elements
        /\ call.elements.tag = "None" =>
            /\ result.tag = from_dtype(CalledDtype).tag
            /\ result = from_dtype(CalledDtype)
        /\ pc = "drawn" => value.tag = "scalar"

\* arrays(uint8, ()) returned the strategy from_dtype infers, and a scalar
\* was drawn from it
C5_Witness ==
    /\ Called("arrays")
    /\ CalledDtype.kind = "u"
    /\ CalledShape = <<>>
    /\ call.elements.tag = "None"
    /\ result.tag = "map_type"
    /\ pc = "drawn"
    /\ value.tag = "scalar"

\* C6: array_shapes rejects with InvalidArgument every call whose minimum is
\* below the floor 1 (min_dims < 1 or min_side < 1), also when min <= max.
C6_BelowFloorIsRejected ==
    (Called("array_shapes") /\ (call.min_dims < 1 \/ call.min_side < 1))
    => RaisedInvalidArgument

\* C7: a dtype family called with an endianness that is none of "?", "<",
\* "=", ">" fails with InvalidArgument, and the message names the value.
C7_UnknownEndiannessIsInvalidArgument ==
    (CalledFamily /\ call.endianness \notin {"?", "<", "=", ">"}) =>
        /\ RaisedInvalidArgument
        /\ Str(call.endianness) \in Range(result.msg)

\* C8: a dtype family called (with a recognized endianness) with requested
\* widths S and valid widths V: when S is non-empty and within V, the item
\* sizes of the descriptors the strategy can produce are exactly
\* {s div 8 : s in S}, and every descriptor drawn has one of them; when S is
\* empty or has a member outside V, the call fails with InvalidArgument.
C8_SizesDecideTheItemSizes ==
    (CalledFamily /\ call.endianness \in {"?", "<", "=", ">"}) =>
        IF CalledSizes # {} /\ CalledSizes \subseteq CalledValidSizes
        THEN /\ result.tag = "map_np_dtype"
             /\ {np_dtype(x).itemsize : x \in Support(result.base)}
                    = {w \div 8 : w \in CalledSizes}
             /\ pc = "drawn" =>
                    /\ value.tag = "dtype"
                    /\ value.dtype.kind = CalledKind
                    /\ \E w \in CalledSizes : value.dtype.itemsize = w \div 8
        ELSE RaisedInvalidArgument

\* unsigned_integer_dtypes(sizes=(8, 16)) produced a descriptor of 2 bytes
C8_Witness ==
    /\ CalledFamily
    /\ call.op = "unsigned_integer_dtypes"
    /\ call.endianness = "?"
    /\ ~call.sizes.isint
    /\ call.sizes.tuple = <<8, 16>>
    /\ pc = "drawn"
    /\ value.dtype.itemsize = 2

\* C9: a dtype family that returned a strategy: with endianness "<", ">" or
\* "=" every descriptor string produced starts with that character, and
\* with "<" every descriptor of more than one byte is little-endian; with
\* "?" every string produced starts with "<" or ">", and for every requested
\* width both the "<" and the ">" string are produced, realized for more
\* than one byte as a little-endian and a big-endian descriptor.
C9_EndiannessDecidesTheByteOrder ==
    (CalledFamily /\ result.tag = "map_np_dtype") =>
        /\ call.endianness \in {"<", ">", "="} =>
            \A x \in Support(result.base) : x[1] = call.endianness
        /\ call.endianness = "<" =>
            \A x \in Support(result.base) :
                np_dtype(x).itemsize > 1 => ByteOrderOf(np_dtype(x)) = "<"
        /\ call.endianness = "?" =>
            /\ \A x \in Support(result.base) : x[1] \in {"<", ">"}
            /\ \A w \in CalledSizes : \A e \in {"<", ">"} :
                \E x \in Support(result.base) :
                    /\ x = <<e, CalledKind, Str(w \div 8)>>
                    /\ np_dtype(x).itemsize = w \div 8
                    /\ np_dtype(x).itemsize > 1 => ByteOrderOf(np_dtype(x)) = e
        /\ pc = "drawn" =>
            /\ value.string \in Support(result.base)
            /\ value.dtype = np_dtype(value.string)

\* complex_number_dtypes(endianness="?") produced a big-endian descriptor
C9_Witness ==
    /\ CalledFamily
    /\ call.op = "complex_number_dtypes"
    /\ call.endianness = "?"
    /\ pc = "drawn"
    /\ value.string[1] = ">"
    /\ ByteOrderOf(value.dtype) = ">"

\* C10: array_shapes called with valid bounds (1 <= min_dims <= max_dims and
\* 1 <= min_side <= max_side) returns a strategy, of lists of min_dims to
\* max_dims integers of min_side to max_side; every shape drawn is a tuple
\* of a length in [min_dims, max_dims] of integers in [min_side, max_side].
C10_ValidBoundsGiveShapesWithin ==
    (Called("array_shapes")
        /\ 1 <= call.min_dims /\ call.min_dims <= call.max_dims
        /\ 1 <= call.min_side /\ call.min_side <= call.max_side)
    => /\ result.tag = "lists_map_tuple"
       /\ result.min_size = call.min_dims
       /\ result.max_size = call.max_dims
       /\ result.elements = Integers_(call.min_side, call.max_side)
       /\ pc = "drawn" =>
            /\ value.tag = "tuple"
            /\ call.min_dims <= Len(value.tuple)
            /\ Len(value.tuple) <= call.max_dims
            /\ \A k \in 1..Len(value.tuple) :
                /\ call.min_side <= value.tuple[k]
                /\ value.tuple[k] <= call.max_side

\* array_shapes(1, 2, 1, 2) produced a shape of the maximum length
C10_Witness ==
    /\ Called("array_shapes")
    /\ call.min_dims = 1
    /\ call.max_dims = 2
    /\ call.min_side = 1
    /\ call.max_side = 2
    /\ pc = "drawn"
    /\ value.tag = "tuple"
    /\ Len(value.tuple) = call.max_dims
    /\ value.tuple[1] = call.min_side
    /\ value.tuple[2] = call.max_side

====
